---- MODULE Spec2Model ----
(***************************************************************************)
(* EasyString: the short-string-optimised String / StringRef library.      *)
(* The model follows the alloc_size variant of easy_string.c (word_round,   *)
(* autoalloc, es_move_cstrn, es_slices, es_cat, es_append) together with    *)
(* the declarations of easy_string.h (es_clear, the String union).          *)
(*                                                                         *)
(* Memory is modelled byte by byte: every String variable has its inline   *)
(* array shortstr, every heap block has its bytes and a live flag, and a    *)
(* pointer is a (storage, offset) pair.  An operation is one action that    *)
(* threads a store through the statements of the C function in order.       *)
(***************************************************************************)
EXTENDS Integers, Sequences, FiniteSets, TLC

(***************************************************************************)
(* Sizes.  The size of a pointer is implementation defined; the model      *)
(* takes the 16-bit data model: shortstr holds two pointers, 4 bytes.       *)
(***************************************************************************)
sizeof_ptr == 2

shortstr_size == 2 * sizeof_ptr

shortstring_max == shortstr_size - 1

\* Bounds of the exploration.
MaxTotal == 5

MaxBlocks == 3

\* An indeterminate byte: malloc'ed or automatic storage never written.
U == -1

Vars == {"a", "b"}

\* The automatic variable "String result" of the function being executed.
Local == "result"

Blocks == 1..MaxBlocks

NoBlock == 0

\* strs, heap: the caller's String variables and the heap.  last: the call in
\* progress.  stream: the FILE the caller reads from.  log: what the calls made
\* so far returned and how often they allocated (a history of the run).
VARIABLES strs, heap, last, stream, log

vars == <<strs, heap, last, stream, log>>

(***************************************************************************)
(* Small helpers on sequences and numbers.                                  *)
(***************************************************************************)
\* (Concatenation with <<>> makes TLC keep the function as a tuple.)
Fill(n, x) == [i \in 1..n |-> x] \o <<>>

\* The n elements of s that follow its first k elements.
Part(s, k, n) == [i \in 1..n |-> s[k + i]]

\* s followed by t.
Join(s, t) == [i \in 1..(Len(s) + Len(t)) |-> IF i <= Len(s) THEN s[i] ELSE t[i - Len(s)]]

min_size(x, y) == IF x < y THEN x ELSE y

RECURSIVE BitAnd(_, _)
BitAnd(x, y) ==
    IF x = 0 \/ y = 0 THEN 0
    ELSE (x % 2) * (y % 2) + 2 * BitAnd(x \div 2, y \div 2)

\* size_t arithmetic of the model's platform: 16-bit words.
SizeMod == 65536

shortstring(size) == size <= shortstring_max

shortstring_optimized(str) == shortstring(str.size)

word_round(size) ==
    BitAnd((size + sizeof_ptr - 1) % SizeMod, (SizeMod - 1) - (sizeof_ptr - 1))

(***************************************************************************)
(* The String struct: size, and the union of shortstr with begin and       *)
(* alloc_size.  Writing one member of the union makes the other member      *)
(* indeterminate: a String that holds a pointer has shortstr = Overlaid,   *)
(* a String that holds inline bytes has begin = NoBlock, alloc_size = 0.    *)
(***************************************************************************)
Overlaid == Fill(shortstr_size, U)

es_empty_string ==
    [size |-> 0, shortstr |-> Fill(shortstr_size, 0), begin |-> NoBlock, alloc_size |-> 0]

\* "String result;" with no initialiser.
Uninitialised ==
    [size |-> 0, shortstr |-> Overlaid, begin |-> NoBlock, alloc_size |-> 0]

\* A heap block that is not allocated (never was, or was freed).
Dead == [live |-> FALSE, mem |-> <<>>, adopted |-> FALSE]

(***************************************************************************)
(* Pointers.  kind is "null", "empty" (the literal ""), "lit" (a caller's   *)
(* byte array), "short" (the shortstr member of a String variable) or       *)
(* "blk" (a heap block).  off is the offset in bytes.                       *)
(***************************************************************************)
Ptr(kind, var, blk, off) == [kind |-> kind, var |-> var, blk |-> blk, off |-> off]

NullPtr == Ptr("null", "-", 0, 0)

EmptyLit == Ptr("empty", "-", 0, 0)

LitPtr(k) == Ptr("lit", "-", k, 0)

ShortPtr(v) == Ptr("short", v, 0, 0)

BlkPtr(b) == Ptr("blk", "-", b, 0)

PtrAdd(p, n) == [p EXCEPT !.off = p.off + n]

\* The caller's byte arrays ("cat"-like constants of the calling program).
Lit == << <<1, 2>>, <<2, 2, 1, 2, 1>> >>

(***************************************************************************)
(* The store threaded through a function body: the String variables (and    *)
(* the local result), the heap, the memory faults committed so far, and     *)
(* the automatic array char buffer[] of es_readline.                        *)
(***************************************************************************)
Store(ss, h) ==
    [vars |-> [x \in Vars \cup {Local} |-> IF x \in Vars THEN ss[x] ELSE Uninitialised],
     heap |-> h, faults |-> {}, mallocs |-> 0, frees |-> {}, buffer |-> <<>>]

\* The bytes a pointer's storage holds, or <<>> when it designates nothing.
Storage(st, p) ==
    CASE p.kind = "empty" -> <<0>>
      [] p.kind = "lit" -> Lit[p.blk]
      [] p.kind = "short" -> st.vars[p.var].shortstr
      [] p.kind = "buffer" -> st.buffer
      [] p.kind = "blk" -> IF st.heap[p.blk].live THEN st.heap[p.blk].mem ELSE <<>>
      [] OTHER -> <<>>

\* Reading the byte at p[i]; a byte outside live storage is indeterminate.
Peek(st, p, i) ==
    LET m == Storage(st, p) IN
    IF p.off + i + 1 \in 1..Len(m) THEN m[p.off + i + 1] ELSE U

\* The fault of accessing p[i], if any.
AccessFault(st, p, i) ==
    IF p.kind = "blk" /\ ~st.heap[p.blk].live THEN {"use_after_free"}
    ELSE IF p.off + i + 1 \in 1..Len(Storage(st, p)) THEN {}
    ELSE {"out_of_bounds"}

\* p[i] = c.  A write outside live storage changes no modelled object.
Poke(st, p, i, c) ==
    LET k == p.off + i + 1
        flt == AccessFault(st, p, i)
    IN  IF flt # {} THEN [st EXCEPT !.faults = @ \cup flt]
        ELSE IF p.kind = "short"
        THEN [st EXCEPT !.vars[p.var].shortstr[k] = c,
                        !.vars[p.var].begin = NoBlock,
                        !.vars[p.var].alloc_size = 0]
        ELSE IF p.kind = "blk"
        THEN [st EXCEPT !.heap[p.blk].mem[k] = c]
        ELSE [st EXCEPT !.faults = @ \cup {"write_to_const"}]

\* p[i] = bytes[1], p[i + 1] = bytes[2], ...: the stores of Poke, one after the
\* other, written as one update of the storage.
PokeSeq(st, p, i, bytes) ==
    LET n == Len(bytes)
        m == Storage(st, p)
        lo == p.off + i
        flt == IF n = 0 THEN {}
               ELSE IF p.kind = "blk" /\ ~st.heap[p.blk].live THEN {"use_after_free"}
               ELSE IF lo + n > Len(m) THEN {"out_of_bounds"}
               ELSE {}
        new == [k \in 1..Len(m) |->
                  IF k > lo /\ k <= lo + n THEN bytes[k - lo] ELSE m[k]] \o <<>>
        st1 == IF flt = {} THEN st ELSE [st EXCEPT !.faults = @ \cup flt]
    IN  IF n = 0 \/ lo >= Len(m) THEN st1
        ELSE IF p.kind = "short"
        THEN [st1 EXCEPT !.vars[p.var].shortstr = new,
                         !.vars[p.var].begin = NoBlock,
                         !.vars[p.var].alloc_size = 0]
        ELSE IF p.kind = "blk"
        THEN [st1 EXCEPT !.heap[p.blk].mem = new]
        ELSE [st1 EXCEPT !.faults = @ \cup {"write_to_const"}]

\* The n bytes at src, as read in the store st.
PeekSeq(st, src, n) == [i \in 1..n |-> Peek(st, src, i - 1)]

ReadFaults(st, src, n) == UNION {AccessFault(st, src, i - 1) : i \in 1..n}

\* memcpy(dst, src, n) and memmove(dst, src, n): the source bytes are read,
\* then written.  No call of the library passes overlapping ranges to memcpy.
memcpy(st, dst, src, n) ==
    LET st1 == [st EXCEPT !.faults = @ \cup ReadFaults(st, src, n)]
    IN  PokeSeq(st1, dst, 0, PeekSeq(st, src, n))

memmove(st, dst, src, n) == memcpy(st, dst, src, n)

\* malloc(n): the lowest block that is not live, with indeterminate bytes.
FreeBlock(st) == CHOOSE b \in Blocks : ~st.heap[b].live /\ \A c \in 1..(b - 1) : st.heap[c].live

malloc(st, b, n) ==
    [st EXCEPT !.heap[b] = [live |-> TRUE, mem |-> Fill(n, U), adopted |-> FALSE],
               !.mallocs = @ + 1]

\* free(p) of a pointer to the start of a block (or of NULL).
free(st, p) ==
    IF p.kind = "null" THEN st
    ELSE IF p.kind = "blk" /\ p.off = 0 /\ st.heap[p.blk].live
    THEN [st EXCEPT !.heap[p.blk] = Dead, !.frees = @ \cup {p.blk}]
    ELSE IF p.kind = "blk" /\ p.off = 0
    THEN [st EXCEPT !.faults = @ \cup {"double_free"}]
    ELSE [st EXCEPT !.faults = @ \cup {"bad_free"}]

(***************************************************************************)
(* easy_string.c: allocation primitive and accessors.                       *)
(***************************************************************************)
\* autoalloc that asks for size bytes, without the byte of the terminator.
autoalloc_tight(st, x, size, hint) ==
    IF ~shortstring(size)
    THEN LET alloc_amount == word_round(IF hint > size THEN hint ELSE size)
             b == FreeBlock(st)
             st1 == malloc(st, b, alloc_amount)
             st2 == [st1 EXCEPT !.vars[x] =
                        [size |-> size, shortstr |-> Overlaid,
                         begin |-> b, alloc_size |-> alloc_amount]]
         IN  Poke(st2, BlkPtr(b), size, 0)
    ELSE Poke([st EXCEPT !.vars[x].size = size], ShortPtr(x), size, 0)

\* autoalloc without the store of the terminator.
autoalloc_noterm(st, x, size, hint) ==
    IF ~shortstring(size)
    THEN LET alloc_amount == word_round(IF hint > size THEN hint ELSE size + 1)
             b == FreeBlock(st)
             st1 == malloc(st, b, alloc_amount)
         IN  [st1 EXCEPT !.vars[x] =
                 [size |-> size, shortstr |-> Overlaid,
                  begin |-> b, alloc_size |-> alloc_amount]]
    ELSE [st EXCEPT !.vars[x].size = size]

\* autoalloc(&x, size, hint): overwrites x; yields the store, the data
\* pointer is es_cstr of the new x.
autoalloc(st, x, size, hint) ==
    IF ~shortstring(size)
    THEN LET alloc_amount == word_round(IF hint > size THEN hint ELSE size + 1)
             b == FreeBlock(st)
             st1 == malloc(st, b, alloc_amount)
             st2 == [st1 EXCEPT !.vars[x] =
                        [size |-> size, shortstr |-> Overlaid,
                         begin |-> b, alloc_size |-> alloc_amount]]
         IN  Poke(st2, BlkPtr(b), size, 0)
    ELSE Poke([st EXCEPT !.vars[x].size = size], ShortPtr(x), size, 0)

available(str) ==
    IF shortstring_optimized(str) THEN shortstr_size ELSE str.alloc_size

\* es_cstr(&x) / es_cstrc(&x)
es_cstr(st, x) ==
    IF shortstring_optimized(st.vars[x]) THEN ShortPtr(x)
    ELSE IF st.vars[x].begin = NoBlock THEN NullPtr ELSE BlkPtr(st.vars[x].begin)

\* es_free that frees nothing.
es_free_never(st, x) == st

es_free(st, x) ==
    IF ~shortstring_optimized(st.vars[x]) THEN free(st, es_cstr(st, x)) ELSE st

\* es_clear that resets the String without freeing its block.
es_clear_leak(st, x) == [st EXCEPT !.vars[x] = es_empty_string]

es_clear(st, x) == [es_free(st, x) EXCEPT !.vars[x] = es_empty_string]

(***************************************************************************)
(* Views (StringRef).                                                       *)
(***************************************************************************)
es_tempn(str, size) ==
    [begin |-> IF str.kind # "null" /\ size # 0 THEN str ELSE EmptyLit, size |-> size]

es_ref(st, x) == es_tempn(es_cstr(st, x), st.vars[x].size)

\* The bytes a String / a view denotes in a store.
StrBytes(st, x) == PeekSeq(st, es_cstr(st, x), st.vars[x].size)

RefBytes(st, ref) == PeekSeq(st, ref.begin, ref.size)

\* update_slice_indexes without the clamp of size to the rest of the string.
update_slice_indexes_noclamp(str_size, offset, size) ==
    IF offset >= str_size THEN 0 ELSE size

update_slice_indexes(str_size, offset, size) ==
    IF offset >= str_size THEN 0 ELSE min_size(size, str_size - offset)

es_slice(ref, offset, size) ==
    es_tempn(PtrAdd(ref.begin, offset), update_slice_indexes(ref.size, offset, size))

(***************************************************************************)
(* easy_string.c: the constructors and mutators, as store transformers.     *)
(* x is the String the caller passes by address, dst the variable that      *)
(* receives the returned String.                                            *)
(***************************************************************************)
Return(st, dst) == [st EXCEPT !.vars[dst] = st.vars[Local]]

\* es_copy that lets the result share the block a view starts at.
es_copy_shallow(st, dst, str) ==
    IF str.begin.kind = "blk" /\ str.begin.off = 0 /\ ~shortstring(str.size)
    THEN Return([st EXCEPT !.vars[Local] =
                    [size |-> str.size, shortstr |-> Overlaid,
                     begin |-> str.begin.blk, alloc_size |-> str.size]], dst)
    ELSE LET st1 == autoalloc(st, Local, str.size, 0)
             st2 == memcpy(st1, es_cstr(st1, Local), str.begin, str.size)
         IN  Return(st2, dst)

es_copy(st, dst, str) ==
    LET st1 == autoalloc(st, Local, str.size, 0)
        st2 == memcpy(st1, es_cstr(st1, Local), str.begin, str.size)
    IN  Return(st2, dst)

\* es_move that leaves a heap-backed source as it was.
es_move_noreset(st, dst, x) ==
    Return([st EXCEPT !.vars[Local] = st.vars[x]], dst)

es_move(st, dst, x) ==
    LET st1 == [st EXCEPT !.vars[Local] = st.vars[x]]
        st2 == IF ~shortstring_optimized(st1.vars[x])
               THEN [st1 EXCEPT !.vars[x] = es_empty_string]
               ELSE st1
    IN  Return(st2, dst)

\* The caller's block: Len(bytes) bytes obtained from malloc and filled in.
CallerBlock(st, b, bytes) ==
    [st EXCEPT !.heap[b] = [live |-> TRUE, mem |-> bytes, adopted |-> TRUE]]

\* es_move_cstrn that does not free the block of a short string.
es_move_cstrn_nofree(st, dst, str, size) ==
    LET st1 == [st EXCEPT !.vars[Local].size = size]
    IN  IF shortstring(size)
        THEN LET st2 == memcpy(st1, ShortPtr(Local), str, size)
                 st3 == Poke(st2, ShortPtr(Local), size, 0)
             IN  Return(st3, dst)
        ELSE Return([st1 EXCEPT !.vars[Local].shortstr = Overlaid,
                                !.vars[Local].begin = str.blk,
                                !.vars[Local].alloc_size = size], dst)

\* es_move_cstrn with the test size < shortstring_max.
es_move_cstrn_lt(st, dst, str, size) ==
    LET st1 == [st EXCEPT !.vars[Local].size = size]
    IN  IF size < shortstring_max
        THEN LET st2 == memcpy(st1, ShortPtr(Local), str, size)
                 st3 == Poke(st2, ShortPtr(Local), size, 0)
             IN  Return(free(st3, str), dst)
        ELSE Return([st1 EXCEPT !.vars[Local].shortstr = Overlaid,
                                !.vars[Local].begin = str.blk,
                                !.vars[Local].alloc_size = size], dst)

es_move_cstrn(st, dst, str, size) ==
    LET st1 == [st EXCEPT !.vars[Local].size = size]
    IN  IF shortstring(size)
        THEN LET st2 == memcpy(st1, ShortPtr(Local), str, size)
                 st3 == Poke(st2, ShortPtr(Local), size, 0)
             IN  Return(free(st3, str), dst)
        ELSE Return([st1 EXCEPT !.vars[Local].shortstr = Overlaid,
                                !.vars[Local].begin = str.blk,
                                !.vars[Local].alloc_size = size], dst)

\* es_slices that keeps the block of a String that became inline.
es_slices_nofree(st, x, offset, size0) ==
    LET size == update_slice_indexes(st.vars[x].size, offset, size0)
    IN  IF size = 0 THEN es_clear(st, x)
        ELSE IF shortstring(size) /\ ~shortstring_optimized(st.vars[x])
        THEN LET ptr == es_cstr(st, x)
                 st1 == memcpy(st, ShortPtr(x), PtrAdd(ptr, offset), size)
                 st2 == Poke(st1, ShortPtr(x), size, 0)
             IN  [st2 EXCEPT !.vars[x].size = size]
        ELSE LET mem == es_cstr(st, x)
                 st1 == memmove(st, mem, PtrAdd(mem, offset), size)
                 st2 == Poke(st1, mem, size, 0)
             IN  [st2 EXCEPT !.vars[x].size = size]

\* es_slices that moves the bytes from the start of the storage.
es_slices_nooffset(st, x, offset, size0) ==
    LET size == update_slice_indexes(st.vars[x].size, offset, size0)
    IN  IF size = 0 THEN es_clear(st, x)
        ELSE IF shortstring(size) /\ ~shortstring_optimized(st.vars[x])
        THEN LET ptr == es_cstr(st, x)
                 st1 == memcpy(st, ShortPtr(x), ptr, size)
                 st2 == Poke(st1, ShortPtr(x), size, 0)
                 st3 == free(st2, ptr)
             IN  [st3 EXCEPT !.vars[x].size = size]
        ELSE LET mem == es_cstr(st, x)
                 st1 == memmove(st, mem, mem, size)
                 st2 == Poke(st1, mem, size, 0)
             IN  [st2 EXCEPT !.vars[x].size = size]

es_slices(st, x, offset, size0) ==
    LET size == update_slice_indexes(st.vars[x].size, offset, size0)
    IN  IF size = 0 THEN es_clear(st, x)
        ELSE IF shortstring(size) /\ ~shortstring_optimized(st.vars[x])
        THEN LET ptr == es_cstr(st, x)
                 st1 == memcpy(st, ShortPtr(x), PtrAdd(ptr, offset), size)
                 st2 == Poke(st1, ShortPtr(x), size, 0)
                 st3 == free(st2, ptr)
             IN  [st3 EXCEPT !.vars[x].size = size]
        ELSE LET mem == es_cstr(st, x)
                 st1 == memmove(st, mem, PtrAdd(mem, offset), size)
                 st2 == Poke(st1, mem, size, 0)
             IN  [st2 EXCEPT !.vars[x].size = size]

\* es_cat that copies str2 to the start of the destination.
es_cat_overlap(st, dst, str1, str2) ==
    LET st0 == [st EXCEPT !.vars[Local] = es_empty_string]
        st1 == autoalloc(st0, Local, str1.size + str2.size, 0)
        dest == es_cstr(st1, Local)
        st2 == memcpy(st1, dest, str1.begin, str1.size)
        st3 == memcpy(st2, dest, str2.begin, str2.size)
    IN  Return(st3, dst)

es_cat(st, dst, str1, str2) ==
    LET st0 == [st EXCEPT !.vars[Local] = es_empty_string]
        st1 == autoalloc(st0, Local, str1.size + str2.size, 0)
        dest == es_cstr(st1, Local)
        st2 == memcpy(st1, dest, str1.begin, str1.size)
        st3 == memcpy(st2, PtrAdd(dest, str1.size), str2.begin, str2.size)
    IN  Return(st3, dst)

\* es_append that asks for the old capacity, not 3/2 of it, as the hint.
es_append_no_growth(st, x, str2) ==
    IF str2.size = 0 THEN st
    ELSE LET final_size == st.vars[x].size + str2.size
         IN  IF available(st.vars[x]) < final_size + 1
             THEN LET st1 == autoalloc(st, Local, final_size, available(st.vars[x]))
                      mem == es_cstr(st1, Local)
                      st2 == memcpy(st1, mem, es_cstr(st1, x), st1.vars[x].size)
                      st3 == memcpy(st2, PtrAdd(mem, st2.vars[x].size),
                                    str2.begin, str2.size)
                      st4 == es_free(st3, x)
                  IN  [st4 EXCEPT !.vars[x] = st4.vars[Local]]
             ELSE LET mem == es_cstr(st, x)
                      st1 == memcpy(st, PtrAdd(mem, st.vars[x].size),
                                    str2.begin, str2.size)
                      st2 == Poke(st1, mem, final_size, 0)
                  IN  [st2 EXCEPT !.vars[x].size = final_size]

\* es_append that always moves the String to a new allocation.
es_append_always_realloc(st, x, str2) ==
    IF str2.size = 0 THEN st
    ELSE LET final_size == st.vars[x].size + str2.size
             st1 == autoalloc(st, Local, final_size,
                              (available(st.vars[x]) * 3) \div 2)
             mem == es_cstr(st1, Local)
             st2 == memcpy(st1, mem, es_cstr(st1, x), st1.vars[x].size)
             st3 == memcpy(st2, PtrAdd(mem, st2.vars[x].size), str2.begin, str2.size)
             st4 == es_free(st3, x)
         IN  [st4 EXCEPT !.vars[x] = st4.vars[Local]]

\* es_append that reallocates to the size it needs, without the growth hint.
es_append_exact(st, x, str2) ==
    IF str2.size = 0 THEN st
    ELSE LET final_size == st.vars[x].size + str2.size
         IN  IF available(st.vars[x]) < final_size + 1
             THEN LET st1 == autoalloc(st, Local, final_size, 0)
                      mem == es_cstr(st1, Local)
                      st2 == memcpy(st1, mem, es_cstr(st1, x), st1.vars[x].size)
                      st3 == memcpy(st2, PtrAdd(mem, st2.vars[x].size),
                                    str2.begin, str2.size)
                      st4 == es_free(st3, x)
                  IN  [st4 EXCEPT !.vars[x] = st4.vars[Local]]
             ELSE LET mem == es_cstr(st, x)
                      st1 == memcpy(st, PtrAdd(mem, st.vars[x].size),
                                    str2.begin, str2.size)
                      st2 == Poke(st1, mem, final_size, 0)
                  IN  [st2 EXCEPT !.vars[x].size = final_size]

\* es_append whose in-place path forgets the offset of the old size.
es_append_overwrite(st, x, str2) ==
    IF str2.size = 0 THEN st
    ELSE LET final_size == st.vars[x].size + str2.size
         IN  IF available(st.vars[x]) < final_size + 1
             THEN LET st1 == autoalloc(st, Local, final_size,
                                       (available(st.vars[x]) * 3) \div 2)
                      mem == es_cstr(st1, Local)
                      st2 == memcpy(st1, mem, es_cstr(st1, x), st1.vars[x].size)
                      st3 == memcpy(st2, PtrAdd(mem, st2.vars[x].size),
                                    str2.begin, str2.size)
                      st4 == es_free(st3, x)
                  IN  [st4 EXCEPT !.vars[x] = st4.vars[Local]]
             ELSE LET mem == es_cstr(st, x)
                      st1 == memcpy(st, mem, str2.begin, str2.size)
                      st2 == Poke(st1, mem, final_size, 0)
                  IN  [st2 EXCEPT !.vars[x].size = final_size]

\* es_append that frees str1 before the append is performed.
es_append_free_first(st, x, str2) ==
    IF str2.size = 0 THEN st
    ELSE LET final_size == st.vars[x].size + str2.size
         IN  IF available(st.vars[x]) < final_size + 1
             THEN LET st1 == autoalloc(st, Local, final_size,
                                       (available(st.vars[x]) * 3) \div 2)
                      mem == es_cstr(st1, Local)
                      st2 == memcpy(st1, mem, es_cstr(st1, x), st1.vars[x].size)
                      st3 == es_free(st2, x)
                      st4 == memcpy(st3, PtrAdd(mem, st3.vars[x].size),
                                    str2.begin, str2.size)
                  IN  [st4 EXCEPT !.vars[x] = st4.vars[Local]]
             ELSE LET mem == es_cstr(st, x)
                      st1 == memcpy(st, PtrAdd(mem, st.vars[x].size),
                                    str2.begin, str2.size)
                      st2 == Poke(st1, mem, final_size, 0)
                  IN  [st2 EXCEPT !.vars[x].size = final_size]

es_append(st, x, str2) ==
    IF str2.size = 0 THEN st
    ELSE LET final_size == st.vars[x].size + str2.size
         IN  IF available(st.vars[x]) < final_size + 1
             THEN LET st1 == autoalloc(st, Local, final_size,
                                       (available(st.vars[x]) * 3) \div 2)
                      mem == es_cstr(st1, Local)
                      st2 == memcpy(st1, mem, es_cstr(st1, x), st1.vars[x].size)
                      st3 == memcpy(st2, PtrAdd(mem, st2.vars[x].size),
                                    str2.begin, str2.size)
                      st4 == es_free(st3, x)
                  IN  [st4 EXCEPT !.vars[x] = st4.vars[Local]]
             ELSE LET mem == es_cstr(st, x)
                      st1 == memcpy(st, PtrAdd(mem, st.vars[x].size),
                                    str2.begin, str2.size)
                      st2 == Poke(st1, mem, final_size, 0)
                  IN  [st2 EXCEPT !.vars[x].size = final_size]

(***************************************************************************)
(* State machine.  The caller executes one statement at a time: a call of   *)
(* a library function, whose arguments and pre-state are kept in last       *)
(* while the statement's temporaries (the views it passed) are alive, and   *)
(* then the end of the statement, which drops them.                         *)
(***************************************************************************)
NoRef == es_tempn(NullPtr, 0)

Idle == [op |-> "none", dst |-> "-", src |-> "-", off |-> 0, n |-> 0,
         str1 |-> NoRef, str2 |-> NoRef, res |-> NoRef,
         pre |-> <<>>, preHeap |-> <<>>,
         faults |-> {}, mallocs |-> 0, frees |-> {}]

\* A FILE: its content, the read position, and the end-of-file indicator.
\* An endless stream delivers its content over and over.
NoStream == [data |-> <<>>, pos |-> 0, eof |-> FALSE, endless |-> FALSE]

NoLog == [calls |-> 0, reallocs |-> 0, out |-> <<>>]

Init ==
    /\ strs = [v \in Vars |-> es_empty_string]
    /\ heap = [b \in Blocks |-> Dead]
    /\ last = Idle
    /\ stream = NoStream
    /\ log = NoLog

Now == Store(strs, heap)

\* The store in which the last call started.
Before == Store(last.pre, last.preHeap)

\* Installs the outcome st of a function body started in the store st0.
Install(st0, st, rec) ==
    /\ strs' = [v \in Vars |-> st.vars[v]]
    /\ heap' = st.heap
    /\ last' = [rec EXCEPT !.pre = [v \in Vars |-> st0.vars[v]], !.preHeap = st0.heap,
                           !.faults = st.faults, !.mallocs = st.mallocs,
                           !.frees = st.frees]

\* The outcome of a function that reads no stream.
Commit(st0, st, rec) ==
    /\ Install(st0, st, rec)
    /\ UNCHANGED <<stream, log>>

\* The bytes of the caller's arrays.
Bytes == UNION {{Lit[k][i] : i \in DOMAIN Lit[k]} : k \in DOMAIN Lit}

\* Arguments larger than any String of the model.
Huge == MaxTotal + 2

Offsets == {0, 1, Huge}

Counts == {0, 1, shortstring_max, shortstr_size, Huge}

\* The views a caller can form: es_tempn of its arrays, es_ref of its Strings,
\* and es_slice of those.
BaseViews ==
    {es_tempn(LitPtr(k), Len(Lit[k])) : k \in DOMAIN Lit} \cup {es_ref(Now, v) : v \in Vars}

Views == {es_slice(r, off, n) : r \in BaseViews, off \in {0, 1}, n \in {1, 2, Huge}}

\* The byte sequences a caller hands over in a block of its own.
CallerBytes ==
    {RefBytes(Now, es_slice(es_tempn(LitPtr(k), Len(Lit[k])), off, n)) :
        k \in DOMAIN Lit, off \in {0, 1}, n \in {0, 1, 2, shortstring_max, Huge}}

\* The bytes all Strings hold together, with x replaced by a String of n bytes.
Total(x, n) == n + (strs["a"].size + strs["b"].size - strs[x].size)

\* A variable that holds the empty String can receive a returned String.
Fresh(dst) == strs[dst].size = 0

CallCopy(dst, str) ==
    /\ Fresh(dst)
    /\ Total(dst, str.size) <= MaxTotal
    /\ Commit(Now, es_copy(Now, dst, str),
              [Idle EXCEPT !.op = "es_copy", !.dst = dst, !.str1 = str])

CallMove(dst, x) ==
    /\ dst # x
    /\ Fresh(dst)
    /\ Commit(Now, es_move(Now, dst, x),
              [Idle EXCEPT !.op = "es_move", !.dst = dst, !.src = x])

CallMoveCstrn(dst, bytes) ==
    /\ Fresh(dst)
    /\ Total(dst, Len(bytes)) <= MaxTotal
    /\ LET b == FreeBlock(Now)
           st == CallerBlock(Now, b, bytes)
       IN  Commit(st, es_move_cstrn(st, dst, BlkPtr(b), Len(bytes)),
                  [Idle EXCEPT !.op = "es_move_cstrn", !.dst = dst, !.n = Len(bytes),
                               !.str1 = [begin |-> BlkPtr(b), size |-> Len(bytes)]])

CallClear(x) ==
    /\ Commit(Now, es_clear(Now, x), [Idle EXCEPT !.op = "es_clear", !.dst = x])

CallSlices(x, offset, size) ==
    /\ Commit(Now, es_slices(Now, x, offset, size),
              [Idle EXCEPT !.op = "es_slices", !.dst = x, !.off = offset, !.n = size])

CallCat(dst, str1, str2) ==
    /\ Fresh(dst)
    /\ Total(dst, str1.size + str2.size) <= MaxTotal
    /\ Commit(Now, es_cat(Now, dst, str1, str2),
              [Idle EXCEPT !.op = "es_cat", !.dst = dst, !.str1 = str1, !.str2 = str2])

CallAppend(x, str2) ==
    /\ Total(x, strs[x].size + str2.size) <= MaxTotal
    /\ Commit(Now, es_append(Now, x, str2),
              [Idle EXCEPT !.op = "es_append", !.dst = x, !.str2 = str2])

CallSlice(ref, offset, size) ==
    /\ Commit(Now, Now,
              [Idle EXCEPT !.op = "es_slice", !.str1 = ref, !.off = offset, !.n = size,
                           !.res = es_slice(ref, offset, size)])

EndStatement ==
    /\ last # Idle
    /\ last' = Idle
    /\ UNCHANGED <<strs, heap, stream, log>>

\* A statement starts when the previous one has ended.
Next ==
    \/ last = Idle /\ \E dst \in Vars, str \in Views : CallCopy(dst, str)
    \/ last = Idle /\ \E dst \in Vars, x \in Vars : CallMove(dst, x)
    \/ last = Idle /\ \E dst \in Vars, bytes \in CallerBytes : CallMoveCstrn(dst, bytes)
    \/ last = Idle /\ \E x \in Vars : CallClear(x)
    \/ last = Idle /\ \E x \in Vars, offset \in Offsets, size \in Counts :
                         CallSlices(x, offset, size)
    \/ last = Idle /\ \E dst \in Vars, str1 \in Views, str2 \in BaseViews :
                         CallCat(dst, str1, str2)
    \/ last = Idle /\ \E x \in Vars, str2 \in Views : CallAppend(x, str2)
    \/ last = Idle /\ \E ref \in BaseViews, offset \in Offsets, size \in Counts :
                         CallSlice(ref, offset, size)
    \/ EndStatement

Spec == Init /\ [][Next]_vars

(***************************************************************************)
(* Properties.                                                              *)
(***************************************************************************)
HeapBacked(v) == ~shortstring(strs[v].size)

\* The bytes of String v now, and when the last call started.
BytesOf(v) == StrBytes(Now, v)

OldBytesOf(v) == StrBytes(Before, v)

\* Every byte of a sequence is a byte some caller supplied.
Written(bytes) == \A i \in DOMAIN bytes : bytes[i] \in Bytes

\* The blocks that are allocated.
LiveBlocks == {b \in Blocks : heap[b].live}

\* C1: the representation of every reachable String is decided by its size
\* alone.  size <= shortstring_max: its bytes are in shortstr and it holds no
\* block; size > shortstring_max: begin is a live block, its bytes are there,
\* and no other String holds that block.  No live block is held by no String.
RepresentationBySize ==
    /\ \A v \in Vars :
          IF strs[v].size <= shortstring_max
          THEN /\ strs[v].begin = NoBlock
               /\ Written(Part(strs[v].shortstr, 0, strs[v].size))
          ELSE /\ strs[v].begin \in LiveBlocks
               /\ strs[v].shortstr = Overlaid
               /\ Written(Part(heap[strs[v].begin].mem, 0, strs[v].size))
               /\ \A w \in Vars \ {v} : ~(HeapBacked(w) /\ strs[w].begin = strs[v].begin)
    /\ \A b \in LiveBlocks : \E v \in Vars : HeapBacked(v) /\ strs[v].begin = b

\* A heap-backed String made inline by es_slices, next to nothing else.
RepresentationWitness ==
    /\ last.op = "es_slices"
    /\ ~shortstring(last.pre[last.dst].size)
    /\ strs[last.dst].size \in 1..shortstring_max
    /\ last.frees # {}

\* es_cstr(v)[size] is inside the storage of v and is zero.
Terminated(v) ==
    /\ AccessFault(Now, es_cstr(Now, v), strs[v].size) = {}
    /\ Peek(Now, es_cstr(Now, v), strs[v].size) = 0

\* The String holds the caller's block exactly as es_move_cstrn took it: the
\* recorded capacity is the size, with no room for a terminator.
AdoptedFull(v) ==
    /\ HeapBacked(v)
    /\ heap[strs[v].begin].adopted
    /\ strs[v].alloc_size = strs[v].size

\* C2 as stated: every live String is zero-terminated inside its storage.
AlwaysTerminated == \A v \in Vars : Terminated(v)

\* C2: every live String is zero-terminated inside its storage, except one
\* that holds an adopted block whose recorded capacity equals its size.
TerminatedUnlessAdopted == \A v \in Vars : AdoptedFull(v) \/ Terminated(v)

\* An adopted block cut shorter by es_slices: it has a terminator from then on.
TerminatedWitness ==
    /\ last.op = "es_slices"
    /\ HeapBacked(last.dst)
    /\ heap[strs[last.dst].begin].adopted
    /\ strs[last.dst].alloc_size > strs[last.dst].size
    /\ Terminated(last.dst)

\* C3 as stated: the recorded capacity of a heap-backed String is >= size + 1.
CapacityHoldsTerminator ==
    \A v \in Vars : HeapBacked(v) => strs[v].alloc_size >= strs[v].size + 1

\* C3: the recorded capacity of a heap-backed String is >= size, is no more
\* than the block really has, and is >= size + 1 when the block came from
\* autoalloc (not from the caller through es_move_cstrn).
CapacityHoldsData ==
    \A v \in Vars :
        HeapBacked(v) =>
            /\ strs[v].alloc_size >= strs[v].size
            /\ strs[v].alloc_size <= Len(heap[strs[v].begin].mem)
            /\ ~heap[strs[v].begin].adopted => strs[v].alloc_size >= strs[v].size + 1

\* A block of autoalloc filled to the last byte before the terminator.
CapacityWitness ==
    /\ last.op = "es_append"
    /\ HeapBacked(last.dst)
    /\ ~heap[strs[last.dst].begin].adopted
    /\ strs[last.dst].alloc_size = strs[last.dst].size + 1

\* C4: after dst = es_move(&src).  A heap-backed src is the empty String and
\* dst holds its block, untouched; an inline src is copied by value.  In both
\* cases es_free(&src) and es_clear(&src) free nothing, and src no longer
\* gives access to the bytes of a block.
MoveSafety ==
    last.op = "es_move" =>
        LET old == last.pre[last.src] IN
        /\ IF ~shortstring(old.size)
           THEN /\ strs[last.src] = es_empty_string
                /\ strs[last.dst] = old
                /\ heap[old.begin].live
           ELSE /\ strs[last.dst] = old
                /\ strs[last.dst].begin = NoBlock
        /\ heap = last.preHeap
        /\ BytesOf(last.dst) = OldBytesOf(last.src)
        /\ es_free(Now, last.src).heap = heap
        /\ es_clear(Now, last.src).heap = heap
        /\ es_free(Now, last.src).faults = {}
        /\ es_cstr(Now, last.src).kind = "short"

MoveWitness ==
    /\ last.op = "es_move"
    /\ ~shortstring(last.pre[last.src].size)
    /\ HeapBacked(last.dst)

\* C5: after dst = es_move_cstrn(p, n).  n <= shortstring_max: dst holds the
\* n bytes inline and p was freed; n > shortstring_max: dst.begin is p, the
\* block is as the caller filled it, nothing was allocated or freed.
AdoptOrCopy ==
    last.op = "es_move_cstrn" =>
        LET p == last.str1.begin.blk IN
        IF last.n <= shortstring_max
        THEN /\ strs[last.dst].size = last.n
             /\ strs[last.dst].begin = NoBlock
             /\ BytesOf(last.dst) = last.preHeap[p].mem
             /\ last.frees = {p}
             /\ ~heap[p].live
             /\ last.mallocs = 0
        ELSE /\ strs[last.dst].size = last.n
             /\ strs[last.dst].begin = p
             /\ heap[p] = last.preHeap[p]
             /\ last.frees = {}
             /\ last.mallocs = 0

\* The largest block that is copied rather than adopted.
AdoptOrCopyWitness ==
    /\ last.op = "es_move_cstrn"
    /\ last.n = shortstring_max
    /\ last.frees # {}

\* C6: es_append(&dst, str2) with str2.size > 0 leaves in dst its old bytes
\* followed by the bytes of str2, and size = old size + str2.size.
AppendConcatenates ==
    (last.op = "es_append" /\ last.str2.size > 0) =>
        /\ BytesOf(last.dst) = Join(OldBytesOf(last.dst), RefBytes(Before, last.str2))
        /\ strs[last.dst].size = last.pre[last.dst].size + last.str2.size
        /\ Written(BytesOf(last.dst))

\* An inline String that an append promoted to a heap block.
AppendWitness ==
    /\ last.op = "es_append"
    /\ last.pre[last.dst].size \in 1..shortstring_max
    /\ HeapBacked(last.dst)
    /\ last.mallocs = 1

\* The view ref points into the storage String x had when the last call started.
ViewInto(ref, x) ==
    /\ ref.size > 0
    /\ \/ ref.begin.kind = "short" /\ ref.begin.var = x /\ shortstring(last.pre[x].size)
       \/ /\ ref.begin.kind = "blk"
          /\ ~shortstring(last.pre[x].size)
          /\ ref.begin.blk = last.pre[x].begin

\* C7: es_append(&dst, str2) with str2 a view into dst itself leaves the old
\* bytes of dst followed by the old bytes of the viewed range, and reads no
\* freed block (nor commits any other memory fault).
AppendOfOwnView ==
    (last.op = "es_append" /\ ViewInto(last.str2, last.dst)) =>
        /\ BytesOf(last.dst) =
              Join(OldBytesOf(last.dst),
                   Part(OldBytesOf(last.dst), last.str2.begin.off, last.str2.size))
        /\ last.faults = {}

\* A heap-backed String appended to itself through a reallocation that frees
\* the block the view points into.
AppendOfOwnViewWitness ==
    /\ last.op = "es_append"
    /\ ViewInto(last.str2, last.dst)
    /\ ~shortstring(last.pre[last.dst].size)
    /\ last.frees = {last.pre[last.dst].begin}

\* The length a slice of (offset, n) has in a string of the given size.
ClampedLen(size, offset, n) ==
    IF offset >= size THEN 0 ELSE IF n < size - offset THEN n ELSE size - offset

\* C8: after es_slices(&dst, off, n), dst holds the m bytes of its old value
\* that start at off, m being n clamped to the old size.
SlicesKeepsRange ==
    last.op = "es_slices" =>
        LET old == OldBytesOf(last.dst)
            m == ClampedLen(Len(old), last.off, last.n)
        IN  /\ strs[last.dst].size = m
            /\ BytesOf(last.dst) = Part(old, last.off, m)

\* A heap-backed String sliced from a positive offset with a length that is
\* cut down to what is left.
SlicesWitness ==
    /\ last.op = "es_slices"
    /\ ~shortstring(last.pre[last.dst].size)
    /\ last.off > 0
    /\ strs[last.dst].size > 0
    /\ last.n > strs[last.dst].size

\* C9: es_slice(ref, off, n) is a view of the clamped length m; it starts at
\* ref.begin + off when m > 0 and is the empty view "" when m = 0; the call
\* allocates nothing, frees nothing and changes no String and no block.
SliceIsClampedView ==
    last.op = "es_slice" =>
        LET m == ClampedLen(last.str1.size, last.off, last.n) IN
        /\ last.res.size = m
        /\ m > 0 => last.res.begin = PtrAdd(last.str1.begin, last.off)
        /\ m = 0 => last.res.begin = EmptyLit
        /\ RefBytes(Now, last.res) = Part(RefBytes(Before, last.str1), last.off, m)
        /\ strs = last.pre
        /\ heap = last.preHeap
        /\ last.mallocs = 0
        /\ last.frees = {}

\* A slice from a positive offset whose length was cut down.
SliceWitness ==
    /\ last.op = "es_slice"
    /\ last.off > 0
    /\ last.res.size > 0
    /\ last.n > last.res.size

\* C10: dst = es_cat(str1, str2) holds the bytes of str1 followed by those of
\* str2; both views denote the same bytes as before, every other String and
\* every block that was allocated are unchanged, and nothing is freed.
CatConcatenates ==
    last.op = "es_cat" =>
        LET A == RefBytes(Before, last.str1)
            B == RefBytes(Before, last.str2)
        IN  /\ strs[last.dst].size = last.str1.size + last.str2.size
            /\ BytesOf(last.dst) = Join(A, B)
            /\ RefBytes(Now, last.str1) = A
            /\ RefBytes(Now, last.str2) = B
            /\ \A v \in Vars \ {last.dst} : strs[v] = last.pre[v]
            /\ \A b \in Blocks : last.preHeap[b].live => heap[b] = last.preHeap[b]
            /\ last.frees = {}
            /\ last.faults = {}

\* Two non-empty views joined into a heap-backed String.
CatWitness ==
    /\ last.op = "es_cat"
    /\ last.str1.size > 0
    /\ last.str2.size > 0
    /\ HeapBacked(last.dst)

(***************************************************************************)
(* Copies of views of any size: a caller that builds Strings from its own   *)
(* blocks, copies views of them, and then changes or releases the sources.  *)
(***************************************************************************)
\* dst = es_copy(str), whatever the Strings hold together afterwards.
CallCopyAny(dst, str) ==
    /\ Fresh(dst)
    /\ Commit(Now, es_copy(Now, dst, str),
              [Idle EXCEPT !.op = "es_copy", !.dst = dst, !.str1 = str])

NextCopy ==
    \/ last = Idle /\ \E dst \in Vars, str \in BaseViews \cup Views : CallCopyAny(dst, str)
    \/ last = Idle /\ \E dst \in Vars, bytes \in CallerBytes : CallMoveCstrn(dst, bytes)
    \/ last = Idle /\ \E x \in Vars : CallClear(x)
    \/ last = Idle /\ \E x \in Vars, offset \in Offsets, size \in Counts :
                         CallSlices(x, offset, size)
    \/ EndStatement

SpecCopy == Init /\ [][NextCopy]_vars

\* The String variables other than v.
Others(v) == Vars \ {v}

\* C11: dst = es_copy(v) has the size and the bytes of v, in storage of its
\* own: inline, or a block that malloc returned during the call.  v and every
\* other object are unchanged, and clearing or slicing the String v points
\* into afterwards leaves the bytes of the copy as they are.
CopyIsIndependent ==
    last.op = "es_copy" =>
        LET v == last.str1
            old == RefBytes(Before, v)
        IN  /\ strs[last.dst].size = v.size
            /\ BytesOf(last.dst) = old
            /\ RefBytes(Now, v) = old
            /\ \A w \in Others(last.dst) : strs[w] = last.pre[w]
            /\ \A b \in Blocks : last.preHeap[b].live => heap[b] = last.preHeap[b]
            /\ last.frees = {}
            /\ last.faults = {}
            /\ IF HeapBacked(last.dst)
               THEN /\ last.mallocs = 1
                    /\ ~last.preHeap[strs[last.dst].begin].live
                    /\ ~(v.begin.kind = "blk" /\ v.begin.blk = strs[last.dst].begin)
               ELSE /\ last.mallocs = 0
                    /\ ~(v.begin.kind = "short" /\ v.begin.var = last.dst)
            /\ \A w \in Others(last.dst) :
                  /\ StrBytes(es_clear(Now, w), last.dst) = old
                  /\ StrBytes(es_slices(Now, w, 1, 1), last.dst) = old

\* A whole heap-backed String copied into a block of its own.
CopyWitness ==
    /\ last.op = "es_copy"
    /\ last.str1.begin.kind = "blk"
    /\ last.str1.begin.off = 0
    /\ HeapBacked(last.dst)

(***************************************************************************)
(* A String grown one byte at a time: String s = es_empty_string, then       *)
(* es_append(&s, one byte) again and again.  log counts the calls and the   *)
(* blocks they allocated.                                                   *)
(***************************************************************************)
MaxAppends == 60

\* The String that is grown.
Grown == "a"

\* The one-byte view that is appended.
OneByte == es_tempn(LitPtr(1), 1)

CallAppendByte(x, str2) ==
    /\ log.calls < MaxAppends
    /\ LET st == es_append(Now, x, str2)
       IN  /\ Install(Now, st, [Idle EXCEPT !.op = "es_append", !.dst = x, !.str2 = str2])
           /\ log' = [log EXCEPT !.calls = @ + 1, !.reallocs = @ + st.mallocs]
    /\ UNCHANGED stream

NextAppend ==
    \/ last = Idle /\ CallAppendByte(Grown, OneByte)
    \/ EndStatement

SpecAppend == Init /\ [][NextAppend]_vars

RECURSIVE Pow(_, _)
Pow(b, e) == IF e = 0 THEN 1 ELSE b * Pow(b, e - 1)

\* C12: N one-byte appends to the empty String.  An append reallocates only
\* when size + 1 is the capacity, and then once, to a capacity of at least
\* 3/2 of the old one; so after k > 0 reallocations N >= C * (3/2)^(k-1), C the
\* inline capacity: k is at most 1 + log_{3/2}(N / C).
AppendAmortized ==
    /\ strs[Grown].size = log.calls
    /\ log.reallocs > 0 =>
          Pow(2, log.reallocs - 1) * log.calls >= Pow(3, log.reallocs - 1) * shortstr_size
    /\ last.op = "es_append" =>
          /\ last.mallocs <= 1
          /\ last.mallocs = 1 =>
                /\ last.pre[Grown].size + 1 = available(last.pre[Grown])
                /\ 2 * available(strs[Grown]) >= 3 * available(last.pre[Grown])
                /\ last.frees = IF shortstring(last.pre[Grown].size) THEN {}
                                ELSE {last.pre[Grown].begin}
          /\ last.mallocs = 0 => available(strs[Grown]) = available(last.pre[Grown])

\* The sixth reallocation, which comes after more than thirty appends.
AppendAmortizedWitness ==
    /\ last.op = "es_append"
    /\ last.mallocs = 1
    /\ log.reallocs = 6
    /\ log.calls > 30

(***************************************************************************)
(* Comparison.  memcmp compares unsigned bytes and returns an int that is   *)
(* negative, zero or positive; which negative or positive int is up to the  *)
(* C library, so the caller of the model picks its magnitude mag.           *)
(***************************************************************************)
\* The magnitudes a memcmp result is drawn from.
MaxCmp == 2

\* The first index at which two byte sequences differ within n bytes, or 0.
FirstDiff(b1, b2, n) ==
    LET D == {i \in 1..n : b1[i] # b2[i]}
    IN  IF D = {} THEN 0 ELSE CHOOSE i \in D : \A j \in D : i <= j

memcmp(st, s1, s2, n, mag) ==
    LET b1 == PeekSeq(st, s1, n)
        b2 == PeekSeq(st, s2, n)
        i == FirstDiff(b1, b2, n)
    IN  IF i = 0 THEN 0 ELSE IF b1[i] < b2[i] THEN 0 - mag ELSE mag

\* es_sizecmp with the two results exchanged.
es_sizecmp_swapped(str1, str2) ==
    IF str1 < str2 THEN 1 ELSE IF str1 > str2 THEN -1 ELSE 0

es_sizecmp(str1, str2) ==
    IF str1 < str2 THEN -1 ELSE IF str1 > str2 THEN 1 ELSE 0

es_prefix(st, str1, str2, mag) ==
    memcmp(st, str1.begin, str2.begin, min_size(str1.size, str2.size), mag)

\* es_compare that stops at the comparison of the common prefix.
es_compare_prefix_only(st, str1, str2, mag) ==
    es_prefix(st, str1, str2, mag)

es_compare(st, str1, str2, mag) ==
    LET cmp == es_prefix(st, str1, str2, mag)
    IN  IF cmp # 0 THEN cmp ELSE es_sizecmp(str1.size, str2.size)

\* The views that are compared: the caller's arrays and slices of them.
CompareViews ==
    {es_slice(es_tempn(LitPtr(k), Len(Lit[k])), off, n) :
        k \in DOMAIN Lit, off \in {0, 1, 2}, n \in {0, 1, 2, Huge}}

\* log.out holds the calls of the caller's last statement.
Remember(calls) == log' = [log EXCEPT !.out = calls]

\* The record of a call and of what it returned.
Called(op, str1, str2, ret) == [op |-> op, str1 |-> str1, str2 |-> str2, ret |-> ret]

\* x = es_compare(str1, str2); y = es_compare(str2, str1);
CallCompare(str1, str2, mag1, mag2) ==
    /\ Remember(<<Called("es_compare", str1, str2, es_compare(Now, str1, str2, mag1)),
                  Called("es_compare", str2, str1, es_compare(Now, str2, str1, mag2))>>)
    /\ UNCHANGED <<strs, heap, last, stream>>

\* x = es_prefix(str1, str2);
CallPrefix(str1, str2, mag) ==
    /\ Remember(<<Called("es_prefix", str1, str2, es_prefix(Now, str1, str2, mag))>>)
    /\ UNCHANGED <<strs, heap, last, stream>>

NextCompare ==
    \/ \E str1 \in CompareViews, str2 \in CompareViews, mag1 \in 1..MaxCmp,
          mag2 \in 1..MaxCmp : CallCompare(str1, str2, mag1, mag2)
    \/ \E str1 \in CompareViews, str2 \in CompareViews, mag \in 1..MaxCmp :
           CallPrefix(str1, str2, mag)

SpecCompare == Init /\ [][NextCompare]_vars

\* The calls log.out remembers.
Calls == {log.out[i] : i \in DOMAIN log.out}

\* The bytes of a view of the caller's arrays.
ViewBytes(ref) == RefBytes(Now, ref)

\* A and B have equal size and identical bytes.
SameBytes(A, B) == A.size = B.size /\ ViewBytes(A) = ViewBytes(B)

\* A is a proper byte-for-byte prefix of B.
ProperPrefix(A, B) ==
    /\ A.size < B.size
    /\ \A i \in 1..A.size : ViewBytes(A)[i] = ViewBytes(B)[i]

\* C13: es_compare(A, B) is 0 exactly when A and B have equal size and
\* identical bytes, the empty views included.
CompareZeroIffEqual ==
    \A c \in Calls :
        c.op = "es_compare" => ((c.ret = 0) <=> SameBytes(c.str1, c.str2))

\* Two views of different arrays that hold the same bytes compare equal.
CompareZeroWitness ==
    \E c \in Calls :
        /\ c.op = "es_compare"
        /\ c.ret = 0
        /\ c.str1.size > 1
        /\ c.str1.begin # c.str2.begin

\* C14 as stated: es_compare(A, B) = -es_compare(B, A), and every result is
\* one of -1, 0, 1.
CompareAntisymmetricExact ==
    /\ \A c \in Calls : c.op = "es_compare" => c.ret \in {-1, 0, 1}
    /\ \A c, d \in Calls :
          (c.op = "es_compare" /\ d.op = "es_compare"
             /\ c.str1 = d.str2 /\ c.str2 = d.str1) => c.ret = 0 - d.ret

\* C15: when A is a proper prefix of B, es_compare(A, B) < 0, es_compare(B, A)
\* > 0, and es_prefix is 0 both ways.
PrefixSortsFirst ==
    \A c \in Calls :
        /\ ProperPrefix(c.str1, c.str2) =>
              IF c.op = "es_compare" THEN c.ret < 0 ELSE c.ret = 0
        /\ ProperPrefix(c.str2, c.str1) =>
              IF c.op = "es_compare" THEN c.ret > 0 ELSE c.ret = 0

\* A non-empty proper prefix compared both ways round.
PrefixWitness ==
    \E c, d \in Calls :
        /\ c.op = "es_compare" /\ d.op = "es_compare"
        /\ c.str1 = d.str2 /\ c.str2 = d.str1
        /\ c.str1.size > 0
        /\ ProperPrefix(c.str1, c.str2)
        /\ c.ret < 0 /\ d.ret > 0

(***************************************************************************)
(* Release.  es_free is for the end of a String's scope: it leaves the      *)
(* String as it was, so the caller's next step ends the scope, and the      *)
(* variable of the model stands for a newly declared String from then on.   *)
(***************************************************************************)
CallFree(x) ==
    /\ Commit(Now, es_free(Now, x), [Idle EXCEPT !.op = "es_free", !.dst = x])

\* The scope of the String that was freed ends; String x = es_empty_string
\* declares the next one.
EndScope ==
    /\ last.op = "es_free"
    /\ strs' = [strs EXCEPT ![last.dst] = es_empty_string]
    /\ last' = Idle
    /\ UNCHANGED <<heap, stream, log>>

NextRelease ==
    \/ last = Idle /\ \E dst \in Vars, str \in Views : CallCopy(dst, str)
    \/ last = Idle /\ \E dst \in Vars, bytes \in CallerBytes : CallMoveCstrn(dst, bytes)
    \/ last = Idle /\ \E x \in Vars, str2 \in Views : CallAppend(x, str2)
    \/ last = Idle /\ \E x \in Vars : CallClear(x)
    \/ last = Idle /\ \E x \in Vars : CallFree(x)
    \/ last.op # "es_free" /\ EndStatement
    \/ EndScope

SpecRelease == Init /\ [][NextRelease]_vars

\* C16: es_free(&s) frees the block of a heap-backed s, and only that block,
\* and frees nothing when s is inline; it leaves s as it was.  es_clear(&s)
\* frees the same and leaves s = es_empty_string, a String on which a further
\* es_free or es_clear frees nothing and changes nothing.
ReleaseFreesOwnBlock ==
    last.op \in {"es_free", "es_clear"} =>
        LET old == last.pre[last.dst] IN
        /\ last.frees = IF shortstring(old.size) THEN {} ELSE {old.begin}
        /\ \A b \in Blocks :
              IF b \in last.frees THEN last.preHeap[b].live /\ ~heap[b].live
              ELSE heap[b] = last.preHeap[b]
        /\ last.faults = {}
        /\ last.mallocs = 0
        /\ \A w \in Others(last.dst) : strs[w] = last.pre[w]
        /\ last.op = "es_free" => strs[last.dst] = old
        /\ last.op = "es_clear" =>
              /\ strs[last.dst] = es_empty_string
              /\ es_free(Now, last.dst) = Now
              /\ es_clear(Now, last.dst) = Now

\* es_free of a heap-backed String next to a String that is not empty.
ReleaseWitness ==
    /\ last.op = "es_free"
    /\ ~shortstring(last.pre[last.dst].size)
    /\ last.frees = {last.pre[last.dst].begin}
    /\ \E w \in Others(last.dst) : strs[w].size > 0

(***************************************************************************)
(* Slicing a String to the whole of itself.                                 *)
(***************************************************************************)
\* The last call was es_slices(&s, 0, n) with n >= s.size.
SlicedWhole ==
    /\ last.op = "es_slices"
    /\ last.off = 0
    /\ last.n >= last.pre[last.dst].size

\* Size, bytes, representation, heap pointer and capacity of the String the
\* last call worked on are what they were when the call started.
SameValue ==
    /\ strs[last.dst].size = last.pre[last.dst].size
    /\ BytesOf(last.dst) = OldBytesOf(last.dst)
    /\ strs[last.dst].begin = last.pre[last.dst].begin
    /\ strs[last.dst].alloc_size = last.pre[last.dst].alloc_size
    /\ heap = last.preHeap
    /\ last.mallocs = 0
    /\ last.frees = {}

builder_autoalloc(st, x, size, hint) ==
    IF ~shortstring(size)
    THEN LET alloc_amount == IF hint > size THEN hint ELSE size + 1
             b == FreeBlock(st)
             st1 == malloc(st, b, alloc_amount)
             st2 == [st1 EXCEPT !.vars[x] =
                        [size |-> size, shortstr |-> Overlaid,
                         begin |-> b, alloc_size |-> alloc_amount]]
         IN  Poke(st2, BlkPtr(b), size, 0)
    ELSE Poke([st EXCEPT !.vars[x].size = size], ShortPtr(x), size, 0)

\* The pointer read from the member begin of a String whose bytes are in
\* shortstr: it designates no object.
WildPtr == Ptr("wild", "-", 0, 0)

\* The values the member alloc_size of such a String may read as.
JunkSizes == {0, SizeMod - 1}

compute_buffer_partial(begin, size, buf_available) ==
    [available |-> buf_available, buffer |-> PtrAdd(begin, size)]

compute_buffer(begin, size, avail) ==
    compute_buffer_partial(begin, size, (avail + SizeMod - size) % SizeMod)

es_buffer(st, x) ==
    compute_buffer(es_cstr(st, x), st.vars[x].size, available(st.vars[x]))

\* Yields the store and the EsBuffer.  junk: what new_str.alloc_size reads as
\* when new_str is inline.
es_buffer_force_grow(st, x, extra, junk) ==
    LET st1 == builder_autoalloc(st, Local, st.vars[x].size + extra,
                                 (available(st.vars[x]) * 3) \div 2)
        mem == es_cstr(st1, Local)
        st2 == memcpy(st1, mem, es_cstr(st1, x), st1.vars[x].size)
        st3 == es_free(st2, x)
        st4 == [st3 EXCEPT !.vars[x] = st3.vars[Local]]
        new_str == st4.vars[Local]
    IN  [st |-> st4,
         buf |-> IF shortstring_optimized(new_str)
                 THEN compute_buffer(WildPtr, new_str.size, junk)
                 ELSE compute_buffer(BlkPtr(new_str.begin), new_str.size,
                                     new_str.alloc_size)]

es_buffer_grow(st, x, extra0, junk) ==
    LET extra == IF extra0 # 0 THEN extra0 ELSE 2
        buf_available == available(st.vars[x]) - st.vars[x].size
    IN  IF buf_available < extra
        THEN es_buffer_force_grow(st, x, 0, junk)
        ELSE [st |-> st,
              buf |-> compute_buffer_partial(es_cstr(st, x), st.vars[x].size,
                                             buf_available)]

es_buffer_commit(st, x, amount) ==
    [st EXCEPT !.vars[x].size = (@ + amount) % SizeMod]

\* The extra sizes a caller asks es_buffer_grow for.
Extras == {0, 1, 2, shortstr_size}

CallBuffer(x) ==
    /\ Commit(Now, Now, [Idle EXCEPT !.op = "es_buffer", !.dst = x,
                                     !.res = es_buffer(Now, x)])

CallBufferGrow(x, extra, junk) ==
    /\ strs[x].size + extra <= MaxTotal
    /\ LET r == es_buffer_grow(Now, x, extra, junk)
       IN  Commit(Now, r.st, [Idle EXCEPT !.op = "es_buffer_grow", !.dst = x,
                                         !.n = extra, !.res = r.buf])

\* The caller stores bytes through the EsBuffer it just got, no more than
\* available, and commits them.
CallBufferCommit(bytes) ==
    /\ last.op \in {"es_buffer", "es_buffer_grow"}
    /\ Len(bytes) <= last.res.available
    /\ Total(last.dst, strs[last.dst].size + Len(bytes)) <= MaxTotal
    /\ LET st1 == PokeSeq(Now, last.res.buffer, 0, bytes)
       IN  Commit(Now, es_buffer_commit(st1, last.dst, Len(bytes)),
                  [Idle EXCEPT !.op = "es_buffer_commit", !.dst = last.dst,
                               !.n = Len(bytes), !.res = last.res])

NextBuffer ==
    \/ last = Idle /\ \E dst \in Vars, bytes \in CallerBytes : CallMoveCstrn(dst, bytes)
    \/ last = Idle /\ \E x \in Vars : CallClear(x)
    \/ last = Idle /\ \E x \in Vars : CallBuffer(x)
    \/ last = Idle /\ \E x \in Vars, extra \in Extras, junk \in JunkSizes :
                         CallBufferGrow(x, extra, junk)
    \/ \E bytes \in CallerBytes : CallBufferCommit(bytes)
    \/ EndStatement

SpecBuffer == Init /\ [][NextBuffer]_vars

\* C18 as stated: es_buffer_grow(&s, extra) returns available >= extra (2 for
\* extra = 0) and the pointer es_cstr(s) + s.size of the String as it is after
\* the call, and the available bytes from the pointer on lie inside the
\* storage of s.
BufferGrowReserves ==
    last.op = "es_buffer_grow" =>
        LET extra == IF last.n = 0 THEN 2 ELSE last.n
            buf == last.res
        IN  /\ buf.available >= extra
            /\ buf.buffer = PtrAdd(es_cstr(Now, last.dst), strs[last.dst].size)
            /\ buf.buffer.off + buf.available <= Len(Storage(Now, buf.buffer))

\* C19 as stated: after es_buffer_commit(&s, k), k <= available, the size of
\* s grew by k, its old bytes are unchanged, es_cstr(s)[size] is 0 inside the
\* storage, and the representation matches the size.
CommitKeepsStringValid ==
    last.op = "es_buffer_commit" =>
        LET old == last.pre[last.dst]
            new == strs[last.dst]
        IN  /\ new.size = old.size + last.n
            /\ Part(BytesOf(last.dst), 0, old.size) = OldBytesOf(last.dst)
            /\ Terminated(last.dst)
            /\ IF new.size <= shortstring_max THEN new.begin = NoBlock
               ELSE new.begin \in LiveBlocks /\ new.alloc_size >= new.size + 1

(***************************************************************************)
(* es_readline.  The stream is a FILE with no read error.  The chunk array  *)
(* is buffer_size bytes; the model takes 2 for the 4096 of the source, so   *)
(* that lines of a few bytes span chunks.  getc returns the byte as an      *)
(* unsigned char converted to int, while delim is a plain char: whether     *)
(* plain char is signed is up to the platform.                              *)
(***************************************************************************)
buffer_size == 2

EOF == -1

SIZE_MAX == SizeMod - 1

\* Longest stream of the exploration.
MaxStream == 4

\* Bytes of the streams: two small ones and one above 127.
StreamBytes == {1, 2, 200}

\* The value of the byte b held in a plain char.
CharOf(b, char_signed) == IF char_signed /\ b >= 128 THEN b - 256 ELSE b

BufferPtr == Ptr("buffer", "-", 0, 0)

getc(strm) ==
    IF strm.pos < Len(strm.data)
    THEN [c |-> strm.data[strm.pos + 1], stream |-> [strm EXCEPT !.pos = @ + 1]]
    ELSE IF strm.endless
    THEN [c |-> strm.data[1], stream |-> [strm EXCEPT !.pos = 1]]
    ELSE [c |-> EOF, stream |-> [strm EXCEPT !.eof = TRUE]]

\* The for loop of es_readline from index i on: fills buffer, stops at
\* buffer_size bytes, at max = 0, at EOF or after the delimiter.
RECURSIVE read_chunk(_, _, _, _, _, _)
read_chunk(i, buffer, c, max, strm, delim) ==
    IF i < buffer_size /\ max # 0
    THEN LET g == getc(strm)
         IN  IF g.c = EOF
             THEN [buffer |-> buffer, c |-> g.c, max |-> max, stream |-> g.stream]
             ELSE IF g.c = delim
             THEN [buffer |-> Append(buffer, g.c), c |-> g.c, max |-> max - 1,
                   stream |-> g.stream]
             ELSE read_chunk(i + 1, Append(buffer, g.c), g.c, max - 1, g.stream, delim)
    ELSE [buffer |-> buffer, c |-> c, max |-> max, stream |-> strm]

\* The do-while loop of es_readline: one chunk, es_append, the loop test.
RECURSIVE read_loop(_, _, _, _, _, _)
read_loop(st, x, c, max, strm, delim) ==
    LET ch == read_chunk(0, <<>>, c, max, strm, delim)
        amount_read == Len(ch.buffer)
        st1 == [st EXCEPT !.buffer = Join(ch.buffer, Fill(buffer_size - amount_read, U))]
        st2 == es_append(st1, x, es_tempn(BufferPtr, amount_read))
    IN  IF ch.c # EOF /\ ch.c # delim /\ ch.max # 0
        THEN read_loop(st2, x, ch.c, ch.max, ch.stream, delim)
        ELSE [st |-> st2, stream |-> ch.stream]

\* x = es_readline(stream, delim, max): yields the store and the stream.
es_readline(st, x, strm, delim, max) ==
    LET st0 == [st EXCEPT !.vars[x] = es_empty_string]
    IN  IF strm.eof THEN [st |-> st0, stream |-> strm]
        ELSE read_loop(st0, x, -1, max, strm, delim)

es_readanyline(st, x, strm, delim) == es_readline(st, x, strm, delim, SIZE_MAX)

StreamContents == UNION {[1..n -> StreamBytes] : n \in 0..MaxStream}

\* The delimiters the caller reads lines with.
Delims == {2, 200}

\* A caller reads a stream to its end with one delimiter; log.out records
\* for every call where the stream stood and the bytes that came back.
CallReadline(dst, delim, char_signed) ==
    /\ Fresh(dst)
    /\ log.calls < Len(stream.data) + 2
    /\ log.out # <<>> => (delim = log.out[1].delim /\ char_signed = log.out[1].char_signed)
    /\ LET r == es_readanyline(Now, dst, stream, CharOf(delim, char_signed))
       IN  /\ Install(Now, r.st, [Idle EXCEPT !.op = "es_readline", !.dst = dst,
                                              !.n = delim])
           /\ stream' = r.stream
           /\ log' = [log EXCEPT !.calls = @ + 1,
                                 !.reallocs = @ + r.st.mallocs,
                                 !.out = Append(@, [delim |-> delim,
                                                    char_signed |-> char_signed,
                                                    from |-> stream.pos,
                                                    ret |-> StrBytes(r.st, dst)])]

InitReadline ==
    /\ strs = [v \in Vars |-> es_empty_string]
    /\ heap = [b \in Blocks |-> Dead]
    /\ last = Idle
    /\ stream \in {[NoStream EXCEPT !.data = d] : d \in StreamContents}
    /\ log = NoLog

NextReadline ==
    \/ last = Idle /\ \E delim \in Delims, char_signed \in BOOLEAN :
                         CallReadline(Grown, delim, char_signed)
    \/ last = Idle /\ strs[Grown].size > 0 /\ CallClear(Grown)
    \/ EndStatement

SpecReadline == InitReadline /\ [][NextReadline]_vars

\* The index of the first delim in data after position from, or Len(data).
SegmentEnd(data, from, delim) ==
    LET D == {k \in (from + 1)..Len(data) : data[k] = delim}
    IN  IF D = {} THEN Len(data) ELSE CHOOSE k \in D : \A j \in D : k <= j

\* The segment of data that starts at from: through the next delimiter, or
\* the undelimited tail, or nothing at the end of data.
Segment(data, from, delim) == Part(data, from, SegmentEnd(data, from, delim) - from)

\* C20 as stated: the successive results of es_readline(stream, delim,
\* SIZE_MAX) are, in order, the maximal segments of the stream that end with
\* the delimiter, then the tail, then empty Strings at end of stream; each
\* call starts where the previous result ended, so the results concatenate
\* to the content of the stream.
ReadlineSegments ==
    \A i \in DOMAIN log.out :
        LET call == log.out[i] IN
        /\ call.from = IF i = 1 THEN 0
                       ELSE log.out[i - 1].from + Len(log.out[i - 1].ret)
        /\ call.ret = Segment(stream.data, call.from, call.delim)
        /\ call.ret = <<>> => call.from = Len(stream.data)

\* The calls whose delimiter has the same value as a plain char and as the
\* int that getc returns do return these segments.
ReadlineSegmentsSameChar ==
    \A i \in DOMAIN log.out :
        LET call == log.out[i] IN
        CharOf(call.delim, call.char_signed) = call.delim =>
            /\ call.from = IF i = 1 THEN 0
                           ELSE log.out[i - 1].from + Len(log.out[i - 1].ret)
            /\ call.ret = Segment(stream.data, call.from, call.delim)
            /\ call.ret = <<>> => call.from = Len(stream.data)

(***************************************************************************)
(* es_readline with a byte budget.  log.out holds the latest call only:     *)
(* its arguments, where the stream stood before and after, and the result.  *)
(***************************************************************************)
\* The budgets the caller passes: none, a few bytes, unlimited.
Budgets == 0..(MaxStream - 1) \cup {SIZE_MAX}

CallReadlineMax(dst, delim, char_signed, max) ==
    /\ Fresh(dst)
    /\ LET r == es_readline(Now, dst, stream, CharOf(delim, char_signed), max)
       IN  /\ Install(Now, r.st, [Idle EXCEPT !.op = "es_readline", !.dst = dst,
                                              !.n = max])
           /\ stream' = r.stream
           /\ log' = [log EXCEPT !.out = <<[delim |-> delim,
                                            char_signed |-> char_signed,
                                            max |-> max,
                                            from |-> stream.pos,
                                            to |-> r.stream.pos,
                                            ret |-> StrBytes(r.st, dst)]>>]

NextReadMax ==
    \/ last = Idle /\ \E delim \in Delims, char_signed \in BOOLEAN, max \in Budgets :
                         CallReadlineMax(Grown, delim, char_signed, max)
    \/ last = Idle /\ strs[Grown].size > 0 /\ CallClear(Grown)
    \/ EndStatement

SpecReadMax == InitReadline /\ [][NextReadMax]_vars

Min(a, b) == IF a < b THEN a ELSE b

\* Where a call with this budget has to stop: after the first delimiter, at
\* the end of the stream, or after max bytes.
StopAt(data, from, delim, max) == Min(SegmentEnd(data, from, delim), from + max)

\* C21 as stated: es_readline(stream, delim, max) returns at most max bytes,
\* they are exactly the bytes it consumed, and they are the prefix of the
\* unread stream that stops right after the first delimiter, at end of
\* stream or after max bytes, whichever comes first; with max = 0 the result
\* is empty and nothing is consumed.
ReadlineBudget ==
    \A i \in DOMAIN log.out :
        LET call == log.out[i]
            stop == StopAt(stream.data, call.from, call.delim, call.max)
        IN  /\ Len(call.ret) <= call.max
            /\ call.to = call.from + Len(call.ret)
            /\ call.ret = Part(stream.data, call.from, stop - call.from)
            /\ call.max = 0 => (call.ret = <<>> /\ call.to = call.from)

\* The calls whose delimiter has the same value as a plain char and as the
\* int that getc returns do keep to the budget and stop as stated.
ReadlineBudgetSameChar ==
    \A i \in DOMAIN log.out :
        LET call == log.out[i]
            stop == StopAt(stream.data, call.from, call.delim, call.max)
        IN  CharOf(call.delim, call.char_signed) = call.delim =>
                /\ Len(call.ret) <= call.max
                /\ call.to = call.from + Len(call.ret)
                /\ call.ret = Part(stream.data, call.from, stop - call.from)
                /\ call.max = 0 => (call.ret = <<>> /\ call.to = call.from)

(***************************************************************************)
(* es_toul.  unsigned long has the width of size_t on the modelled          *)
(* platform; the arithmetic on count wraps around at ULONG_MAX + 1.         *)
(***************************************************************************)
ULONG_MAX == SizeMod - 1

\* '0' and '9'.
Char0 == 48

Char9 == 57

char_value(c) == IF c < Char0 \/ c > Char9 THEN -1 ELSE c - Char0

\* The loop of es_toul without the check after the addition.
RECURSIVE toul_loop_unchecked_add(_, _, _, _)
toul_loop_unchecked_add(st, str, i, count) ==
    IF i < str.size
    THEN LET decimal == char_value(Peek(st, str.begin, i))
             old_count == count
             count1 == (count * 10) % (ULONG_MAX + 1)
             count2 == (count1 + decimal) % (ULONG_MAX + 1)
         IN  IF decimal = -1 THEN [ret |-> 0, i |-> i, count |-> count]
             ELSE IF count1 \div 10 # old_count THEN [ret |-> 1, i |-> i, count |-> count1]
             ELSE toul_loop_unchecked_add(st, str, i + 1, count2)
    ELSE [ret |-> 0, i |-> i, count |-> count]

\* The loop of es_toul from index i on: ret = 1 is the early return 1.
RECURSIVE toul_loop(_, _, _, _)
toul_loop(st, str, i, count) ==
    IF i < str.size
    THEN LET decimal == char_value(Peek(st, str.begin, i))
             old_count == count
             count1 == (count * 10) % (ULONG_MAX + 1)
             count2 == (count1 + decimal) % (ULONG_MAX + 1)
         IN  IF decimal = -1 THEN [ret |-> 0, i |-> i, count |-> count]
             ELSE IF count1 \div 10 # old_count THEN [ret |-> 1, i |-> i, count |-> count1]
             ELSE IF count2 < old_count THEN [ret |-> 1, i |-> i, count |-> count2]
             ELSE toul_loop(st, str, i + 1, count2)
    ELSE [ret |-> 0, i |-> i, count |-> count]

es_toul_unchecked_add(st, result, str) ==
    LET l == toul_loop_unchecked_add(st, str, 0, 0)
    IN  IF l.ret # 0 THEN [ret |-> 1, result |-> result]
        ELSE IF l.i = 0 THEN [ret |-> 1, result |-> result]
        ELSE [ret |-> 0, result |-> l.count]

\* es_toul(&result, str): the value returned and *result afterwards.
es_toul(st, result, str) ==
    LET l == toul_loop(st, str, 0, 0)
    IN  IF l.ret # 0 THEN [ret |-> 1, result |-> result]
        ELSE IF l.i = 0 THEN [ret |-> 1, result |-> result]
        ELSE [ret |-> 0, result |-> l.count]

\* Longest run of digits in the texts of the exploration.
MaxDigits == 5

\* The digits of the texts ('0', '3', '5', '6', '9': enough to write
\* ULONG_MAX and its neighbours) and what may follow a run of digits.
DigitChars == {48, 51, 53, 54, 57}

Tails == {<<>>, <<47>>, <<58, 48>>, <<97>>}

Texts == {Join(d, t) : d \in UNION {[1..n -> DigitChars] : n \in 0..MaxDigits}, t \in Tails}

\* What *result holds before the call.
OldResults == {0, 7}

\* The caller holds a text in a block of its own.
InitToul ==
    /\ strs = [v \in Vars |-> es_empty_string]
    /\ heap \in {CallerBlock(Store(strs, [b \in Blocks |-> Dead]), 1, text).heap :
                     text \in Texts}
    /\ last = Idle
    /\ stream = NoStream
    /\ log = NoLog

\* The text and the text without its first byte.
TextViews == {es_slice(es_tempn(BlkPtr(1), Len(heap[1].mem)), off, Huge + MaxDigits) :
                 off \in {0, 1}}

CallToul(result, str) ==
    /\ Commit(Now, Now, [Idle EXCEPT !.op = "es_toul", !.str1 = str, !.n = result,
                                     !.res = es_toul(Now, result, str)])

NextToul ==
    \/ last = Idle /\ \E result \in OldResults, str \in TextViews : CallToul(result, str)
    \/ EndStatement

SpecToul == InitToul /\ [][NextToul]_vars

\* The length of the maximal leading run of decimal digits of bytes.
DigitRun(bytes) ==
    LET stops == {k \in 1..Len(bytes) : bytes[k] < Char0 \/ bytes[k] > Char9}
    IN  IF stops = {} THEN Len(bytes) ELSE (CHOOSE k \in stops : \A j \in stops : k <= j) - 1

\* The number that the first n bytes of bytes write in decimal.
RECURSIVE Decimal(_, _)
Decimal(bytes, n) ==
    IF n = 0 THEN 0 ELSE 10 * Decimal(bytes, n - 1) + (bytes[n] - Char0)

\* C22: es_toul(&r, v) returns 0 exactly when the maximal leading run of
\* decimal digits of v is non-empty and its value fits in unsigned long, and
\* then r is that value; otherwise (v empty, no leading digit, or a value
\* above ULONG_MAX) it returns nonzero and leaves r as it was.
ToulParsesLeadingDigits ==
    last.op = "es_toul" =>
        LET text == RefBytes(Now, last.str1)
            run == DigitRun(text)
            value == Decimal(text, run)
            fits == run > 0 /\ value <= ULONG_MAX
        IN  /\ last.res.ret = 0 <=> fits
            /\ fits => last.res.result = value
            /\ ~fits => last.res.result = last.n

\* "65535" followed by a non-digit is parsed to ULONG_MAX, and a run of
\* digits above ULONG_MAX is refused.
ToulWitness ==
    /\ last.op = "es_toul"
    /\ last.res.ret = 0
    /\ last.res.result = ULONG_MAX
    /\ last.str1.size > DigitRun(RefBytes(Now, last.str1))

ToulOverflowWitness ==
    /\ last.op = "es_toul"
    /\ last.res.ret # 0
    /\ DigitRun(RefBytes(Now, last.str1)) > 0

(***************************************************************************)
(* string_substr of easy_string.c, the earlier form of the library.  Its    *)
(* String has size, the union of shortstr with the pointers, and owns; a    *)
(* char* is the storage it points into and an offset.  A String is inline   *)
(* when size < sizeof(shortstr).                                            *)
(***************************************************************************)
string_shortstr_size == 3 * sizeof_ptr

MemPtr(mem, off) == [mem |-> mem, off |-> off]

NullMem == MemPtr(<<>>, 0)

\* The n bytes at p; bytes outside the storage are indeterminate.
MemRead(p, n) ==
    [i \in 1..n |-> IF p.off + i <= Len(p.mem) THEN p.mem[p.off + i] ELSE U] \o <<>>

empty_string ==
    [size |-> 0, shortstr |-> Fill(string_shortstr_size, 0), begin |-> NullMem,
     owns |-> FALSE]

string_shortstring_optimized(str) == str.size < string_shortstr_size

string_cstr(str) ==
    IF string_shortstring_optimized(str) THEN MemPtr(str.shortstr, 0) ELSE str.begin

\* autoalloc of easy_string.c followed by the memcpy of string_copyn_cstr.
string_copyn_cstr(str, size) ==
    LET result == [empty_string EXCEPT !.size = size]
    IN  IF string_shortstring_optimized(result)
        THEN [result EXCEPT !.shortstr =
                 Join(MemRead(str, size), Fill(string_shortstr_size - size, 0))]
        ELSE [result EXCEPT !.shortstr = Fill(string_shortstr_size, U),
                            !.begin = MemPtr(MemRead(str, size), 0),
                            !.owns = TRUE]

string_tempn_cstr(str, size) ==
    LET result == [empty_string EXCEPT !.size = size]
    IN  IF string_shortstring_optimized(result)
        THEN [result EXCEPT !.shortstr =
                 Join(MemRead(str, size), Fill(string_shortstr_size - size, 0))]
        ELSE [result EXCEPT !.shortstr = Fill(string_shortstr_size, U),
                            !.begin = str]

string_substr(str, offset, length) ==
    LET actual_length ==
            IF offset > str.size THEN 0
            ELSE IF (offset + length) % SizeMod > str.size THEN str.size - offset
            ELSE length
    IN  string_tempn_cstr(string_cstr(str), actual_length)

\* Longest text of the exploration: one byte more than fits inline.
MaxText == 7

SubstrTexts == UNION {[1..n -> Bytes] : n \in 0..MaxText}

InitSubstr ==
    /\ strs = [v \in Vars |-> es_empty_string]
    /\ heap \in {CallerBlock(Store(strs, [b \in Blocks |-> Dead]), 1, text).heap :
                     text \in SubstrTexts}
    /\ last = Idle
    /\ stream = NoStream
    /\ log = NoLog

\* String s = string_copyn_cstr(text, n); then string_substr(&s, offset, length).
CallSubstr(offset, length) ==
    LET s == string_copyn_cstr(MemPtr(heap[1].mem, 0), Len(heap[1].mem))
    IN  Commit(Now, Now, [Idle EXCEPT !.op = "string_substr", !.off = offset,
                                      !.n = length,
                                      !.res = [str |-> s,
                                               sub |-> string_substr(s, offset, length)]])

NextSubstr ==
    \/ last = Idle /\ \E offset \in 0..(MaxText + 1),
                         length \in 0..MaxText \cup {SIZE_MAX} : CallSubstr(offset, length)
    \/ EndStatement

SpecSubstr == InitSubstr /\ [][NextSubstr]_vars

\* The bytes a String of easy_string.c denotes.
StringBytes(str) == MemRead(string_cstr(str), str.size)

\* C23 as stated: string_substr(str, offset, length) denotes the bytes
\* [offset, offset + m) of str, where m = 0 if offset >= size and
\* m = min(length, size - offset) otherwise.
SubstrIsRange ==
    last.op = "string_substr" =>
        LET str == last.res.str
            sub == last.res.sub
            m == IF last.off >= str.size THEN 0 ELSE Min(last.n, str.size - last.off)
        IN  /\ sub.size = m
            /\ StringBytes(sub) = Part(StringBytes(str), last.off, m)

\* The length alone is the stated one whenever offset + length does not
\* wrap around.
SubstrLength ==
    (last.op = "string_substr" /\ last.off + last.n < SizeMod) =>
        last.res.sub.size = IF last.off >= last.res.str.size THEN 0
                            ELSE Min(last.n, last.res.str.size - last.off)

(***************************************************************************)
(* The stores of es_slices.                                                 *)
(***************************************************************************)
\* C24 as stated: every byte es_slices writes, the terminator at index
\* (clamped length) included, lies inside the current storage of the String,
\* for every reachable String, the heap Strings of es_move_cstrn whose
\* capacity equals their size included.
SlicesWritesInBounds ==
    last.op = "es_slices" => "out_of_bounds" \notin last.faults

\* The stores of es_slices on a String whose capacity exceeds its size are
\* inside the storage.
SlicesWritesInBoundsWithRoom ==
    (/\ last.op = "es_slices"
     /\ \/ shortstring_optimized(last.pre[last.dst])
        \/ last.pre[last.dst].alloc_size > last.pre[last.dst].size)
        => last.faults = {}

\* C25: es_slices never allocates.  For a heap-backed String the old block
\* is freed, once, exactly when the clamped length is <= shortstring_max:
\* length 0 gives the canonical empty String, a positive length an inline
\* String with the sliced bytes.  In every other case the String keeps the
\* same block: same begin, same capacity.  An inline String frees nothing.
SlicesFreesIffInline ==
    last.op = "es_slices" =>
        LET old == last.pre[last.dst]
            new == strs[last.dst]
            m == ClampedLen(old.size, last.off, last.n)
        IN  /\ last.mallocs = 0
            /\ "double_free" \notin last.faults
            /\ "bad_free" \notin last.faults
            /\ shortstring_optimized(old) => last.frees = {}
            /\ (~shortstring_optimized(old) /\ m <= shortstring_max) =>
                   /\ last.frees = {old.begin}
                   /\ ~heap[old.begin].live
                   /\ shortstring_optimized(new)
                   /\ m = 0 => new = es_empty_string
                   /\ m > 0 => BytesOf(last.dst) = Part(OldBytesOf(last.dst), last.off, m)
            /\ (~shortstring_optimized(old) /\ m > shortstring_max) =>
                   /\ last.frees = {}
                   /\ new.begin = old.begin
                   /\ new.alloc_size = old.alloc_size
                   /\ heap[new.begin].live

\* A heap-backed String was sliced to a positive inline length and its
\* block was freed.
SlicesFreesWitness ==
    /\ last.op = "es_slices"
    /\ ~shortstring_optimized(last.pre[last.dst])
    /\ strs[last.dst].size \in 1..shortstring_max
    /\ last.off > 0
    /\ last.frees = {last.pre[last.dst].begin}

\* A heap-backed String was sliced to a shorter length that keeps its block.
SlicesKeepsBlockWitness ==
    /\ last.op = "es_slices"
    /\ ~shortstring_optimized(strs[last.dst])
    /\ strs[last.dst].size < last.pre[last.dst].size
    /\ last.frees = {}

(***************************************************************************)
(* es_append into a String that has room.                                   *)
(***************************************************************************)
\* The last call was es_append(&s, v) with s.size + v.size + 1 <= available(s).
AppendFits ==
    /\ last.op = "es_append"
    /\ last.pre[last.dst].size + last.str2.size + 1 <= available(last.pre[last.dst])

\* C26: es_append(s, v) with s.size + v.size + 1 <= available(s) performs no
\* malloc and no free and leaves the storage where it was: an inline s stays
\* inline, a heap s keeps its pointer and capacity; with v.size = 0 nothing
\* changes at all.
AppendInPlace ==
    AppendFits =>
        LET old == last.pre[last.dst]
            new == strs[last.dst]
        IN  /\ last.mallocs = 0
            /\ last.frees = {}
            /\ shortstring_optimized(new) = shortstring_optimized(old)
            /\ ~shortstring_optimized(old) =>
                   (new.begin = old.begin /\ new.alloc_size = old.alloc_size)
            /\ \A b \in Blocks : heap[b].live = last.preHeap[b].live
            /\ last.str2.size = 0 => (strs = last.pre /\ heap = last.preHeap)

\* A heap-backed String took an append of at least one byte in its block.
AppendInPlaceWitness ==
    /\ AppendFits
    /\ last.str2.size > 0
    /\ ~shortstring_optimized(last.pre[last.dst])
    /\ strs[last.dst].size = last.pre[last.dst].size + last.str2.size

\* An inline String took an append of at least one byte and is inline.
AppendInlineWitness ==
    /\ AppendFits
    /\ last.str2.size > 0
    /\ last.pre[last.dst].size > 0
    /\ shortstring_optimized(strs[last.dst])

(***************************************************************************)
(* The capacity es_append allocates.  One String takes a few appends of     *)
(* views of one to five bytes and of views of itself, from the empty        *)
(* String or from a block adopted by es_move_cstrn.                         *)
(***************************************************************************)
\* Appends in one run.
MaxGrows == 4

GrowViews ==
    {es_slice(es_tempn(LitPtr(2), Len(Lit[2])), 0, n) : n \in 1..Len(Lit[2])}
        \cup {es_ref(Now, Grown)}

NextGrow ==
    \/ last = Idle /\ log.calls < MaxGrows
                   /\ \E str2 \in GrowViews : CallAppendByte(Grown, str2)
    \/ last = Idle /\ \E bytes \in CallerBytes :
                         CallMoveCstrn(Grown, bytes)
    \/ EndStatement

SpecGrow == Init /\ [][NextGrow]_vars

\* The amount autoalloc of the alloc_end variant allocates for a heap String.
alloc_end_amount(size, hint) == IF hint > size + 1 THEN hint ELSE size + 1

Max(a, b) == IF a > b THEN a ELSE b

\* C27: whenever es_append reallocates, the capacity of the new block is
\* >= max(final size + 1, floor(3/2 * old available capacity)), the old
\* available capacity being sizeof(shortstr) for an inline String and the
\* recorded allocation size for a heap String; the alloc_end variant, asked
\* for the same append, allocates >= max(final size + 1, 2 * old available
\* capacity).
AppendGrowsGeometrically ==
    (last.op = "es_append" /\ last.mallocs > 0) =>
        LET old == last.pre[last.dst]
            new == strs[last.dst]
            final_size == old.size + last.str2.size
        IN  /\ last.mallocs = 1
            /\ new.size = final_size
            /\ ~shortstring_optimized(new)
            /\ new.alloc_size >= Max(final_size + 1, (3 * available(old)) \div 2)
            /\ Len(heap[new.begin].mem) = new.alloc_size
            /\ alloc_end_amount(final_size, available(old) * 2)
                   >= Max(final_size + 1, 2 * available(old))

\* A reallocation decided by the growth factor (a heap String and a short
\* view), and one decided by the final size (a long view).
GrowthByFactorWitness ==
    /\ last.op = "es_append"
    /\ last.mallocs = 1
    /\ ~shortstring_optimized(last.pre[last.dst])
    /\ (3 * available(last.pre[last.dst])) \div 2 > strs[last.dst].size + 1

GrowthBySizeWitness ==
    /\ last.op = "es_append"
    /\ last.mallocs = 1
    /\ (3 * available(last.pre[last.dst])) \div 2 < strs[last.dst].size + 1

(***************************************************************************)
(* es_append of the builder variant: es_buffer_grow, memcpy of the view,    *)
(* the terminator, commit.  The commit it calls, es_buffer_grow_commit(n),  *)
(* is declared nowhere; es_buffer_commit(str1, n) stands for it.            *)
(***************************************************************************)
builder_es_append(st, x, str2, junk) ==
    IF str2.size = 0 THEN st
    ELSE LET g == es_buffer_grow(st, x, (str2.size + 1) % SizeMod, junk)
             st1 == memcpy(g.st, g.buf.buffer, str2.begin, str2.size)
             st2 == Poke(st1, g.buf.buffer, str2.size, 0)
         IN  es_buffer_commit(st2, x, str2.size)

CallBuilderAppend(x, str2, junk) ==
    /\ Total(x, strs[x].size + str2.size) <= MaxTotal
    /\ Commit(Now, builder_es_append(Now, x, str2, junk),
              [Idle EXCEPT !.op = "builder_es_append", !.dst = x, !.str2 = str2])

NextBuilderAppend ==
    \/ last = Idle /\ \E dst \in Vars, bytes \in CallerBytes : CallMoveCstrn(dst, bytes)
    \/ last = Idle /\ \E x \in Vars : CallClear(x)
    \/ last = Idle /\ \E x \in Vars, str2 \in Views, junk \in JunkSizes :
                         CallBuilderAppend(x, str2, junk)
    \/ EndStatement

SpecBuilderAppend == Init /\ [][NextBuilderAppend]_vars

\* C28 as stated: in the builder-based es_append, appending a view that
\* points into the String's own bytes never reads the view after the old
\* block of the String has been freed.
BuilderAppendReadsLiveView ==
    (last.op = "builder_es_append" /\ ViewInto(last.str2, last.dst)) =>
        "use_after_free" \notin last.faults

(***************************************************************************)
(* Ownership of blocks over whole runs of the library.                      *)
(***************************************************************************)
\* The Strings that hold block b.
Owners(b) == {v \in Vars : HeapBacked(v) /\ strs[v].begin = b}

\* C29: over every sequence of es_copy, es_move_cstrn, es_move, es_cat,
\* es_append, es_slices and es_clear, every block that is allocated is held
\* by exactly one String and every block a String holds is allocated; no
\* call frees a block twice, frees a pointer that is not a block, or reads
\* or writes a freed block; a block a call freed is no longer allocated and
\* no String holds it; once every String is empty no block is allocated.
SingleOwnerOrFreed ==
    /\ \A b \in LiveBlocks : Cardinality(Owners(b)) = 1
    /\ \A v \in Vars : HeapBacked(v) => strs[v].begin \in LiveBlocks
    /\ last.faults \cap {"double_free", "bad_free", "use_after_free"} = {}
    /\ \A b \in last.frees : b \notin LiveBlocks /\ Owners(b) = {}
    /\ (\A v \in Vars : strs[v].size = 0) => LiveBlocks = {}

\* The last String that held a block was cleared: its block was freed and
\* nothing is allocated any more.
AllClearedWitness ==
    /\ last.op = "es_clear"
    /\ last.frees # {}
    /\ \A v \in Vars : strs[v].size = 0
    /\ LiveBlocks = {}

\* A block changed hands by es_move and is held by the destination alone.
MovedBlockWitness ==
    /\ last.op = "es_move"
    /\ HeapBacked(last.dst)
    /\ Owners(strs[last.dst].begin) = {last.dst}

(***************************************************************************)
(* es_readline one iteration of its do-while loop at a time.  While the     *)
(* call runs, last.res holds its locals: c, max, the delimiter as the char  *)
(* it was passed as, the number of bytes read so far and the number of      *)
(* iterations made.                                                         *)
(***************************************************************************)
\* One iteration that goes on after EOF.
read_iteration_past_eof(st, x, c, max, strm, delim) ==
    LET ch == read_chunk(0, <<>>, c, max, strm, delim)
        amount_read == Len(ch.buffer)
        st1 == [st EXCEPT !.buffer = Join(ch.buffer, Fill(buffer_size - amount_read, U))]
        st2 == es_append(st1, x, es_tempn(BufferPtr, amount_read))
    IN  [st |-> st2, stream |-> ch.stream, c |-> ch.c, max |-> ch.max,
         amount_read |-> amount_read,
         again |-> ch.c # delim /\ ch.max # 0]

\* One iteration: the chunk, es_append, and the test of the while.
read_iteration(st, x, c, max, strm, delim) ==
    LET ch == read_chunk(0, <<>>, c, max, strm, delim)
        amount_read == Len(ch.buffer)
        st1 == [st EXCEPT !.buffer = Join(ch.buffer, Fill(buffer_size - amount_read, U))]
        st2 == es_append(st1, x, es_tempn(BufferPtr, amount_read))
    IN  [st |-> st2, stream |-> ch.stream, c |-> ch.c, max |-> ch.max,
         amount_read |-> amount_read,
         again |-> ch.c # EOF /\ ch.c # delim /\ ch.max # 0]

\* The streams: finite ones, and endless ones that repeat their content.
InitReadSteps ==
    /\ strs = [v \in Vars |-> es_empty_string]
    /\ heap = [b \in Blocks |-> Dead]
    /\ last = Idle
    /\ stream \in {[NoStream EXCEPT !.data = d, !.endless = e] :
                       d \in StreamContents, e \in BOOLEAN} \ {[NoStream EXCEPT !.endless = TRUE]}
    /\ log = NoLog

\* The call starts: result = es_empty_string, the test of ferror and feof,
\* c = -1.  On an endless stream the caller bounds the read by a budget or
\* by a delimiter that the stream delivers and the comparison recognises.
ReadlineEnter(dst, delim, char_signed, max) ==
    /\ Fresh(dst)
    /\ (stream.endless /\ max = SIZE_MAX) =>
           \E k \in DOMAIN stream.data : stream.data[k] = CharOf(delim, char_signed)
    /\ Commit(Now, Now,
              [Idle EXCEPT !.op = "es_readline", !.dst = dst, !.n = max,
                           !.res = [pc |-> IF stream.eof THEN "return" ELSE "loop",
                                    c |-> -1, max |-> max,
                                    delim |-> CharOf(delim, char_signed),
                                    read |-> 0, iter |-> 0]])

ReadlineIterate ==
    /\ last.op = "es_readline"
    /\ last.res.pc = "loop"
    /\ LET r == read_iteration(Now, last.dst, last.res.c, last.res.max, stream,
                               last.res.delim)
       IN  /\ strs' = [v \in Vars |-> r.st.vars[v]]
           /\ heap' = r.st.heap
           /\ stream' = r.stream
           /\ last' = [last EXCEPT !.res.pc = IF r.again THEN "loop" ELSE "return",
                                   !.res.c = r.c,
                                   !.res.max = r.max,
                                   !.res.read = @ + r.amount_read,
                                   !.res.iter = @ + 1,
                                   !.faults = @ \cup r.st.faults]
    /\ UNCHANGED log

ReadlineReturn ==
    /\ last.op = "es_readline"
    /\ last.res.pc = "return"
    /\ EndStatement

NextReadSteps ==
    \/ last = Idle /\ \E delim \in Delims, char_signed \in BOOLEAN, max \in Budgets :
                         ReadlineEnter(Grown, delim, char_signed, max)
    \/ ReadlineIterate
    \/ ReadlineReturn
    \/ last = Idle /\ strs[Grown].size > 0 /\ CallClear(Grown)
    \/ last.op = "es_clear" /\ EndStatement

Looping == last.op = "es_readline" /\ last.res.pc = "loop"

\* A call that has started keeps running: weak fairness of ReadlineIterate.
\* ReadlineIterate is enabled exactly when Looping holds, it changes vars
\* (it counts itself in iter), and it is the only step out of a Looping
\* state, so WF_vars(ReadlineIterate) is the formula below.
ReadlineRuns == []<>(~Looping) \/ []<><<Looping>>_vars

SpecReadSteps == InitReadSteps /\ [][NextReadSteps]_vars /\ ReadlineRuns

====
